---------------------------- MODULE Spec2Model ----------------------------
(***************************************************************************)
(* The EditProduct component of src/components/admin/edit-product.tsx as a *)
(* state machine: its seven React state cells, the objects they refer to   *)
(* (a heap, because uploadImage assigns to a field of the object its       *)
(* closure captured), the committed render's choice between the image and  *)
(* the file picker, and the upload and update requests in flight.          *)
(*                                                                         *)
(* The props product, category and onUpdate are those of one edit session: *)
(* they are fixed from construction on.                                    *)
(***************************************************************************)
EXTENDS Integers, Sequences, FiniteSets, TLC

\* ------------------------------------------------------------------ bounds
MaxSubmits == 2          \* clicks on "Update product" in one behaviour
MaxUploadsInFlight == 1  \* image uploads awaiting their response

\* ------------------------------------------------------- JavaScript values
Undefined == [t |-> "undefined"]
Str(s) == [t |-> "string", v |-> s]
Num(n) == [t |-> "number", v |-> n]
NaN == [t |-> "NaN"]
Obj(f) == [t |-> "object", v |-> f]
EmptyObject == [x \in {} |-> Undefined]

\* v.k for a value that is not undefined: a missing property reads undefined
Get(v, k) == IF v.t = "object" /\ k \in DOMAIN v.v THEN v.v[k] ELSE Undefined

\* v.k raises a TypeError exactly when v is undefined
ReadThrows(v) == v.t = "undefined"

\* ---------------------------------------------------------------- parseInt
Whitespace == {" "}
HexDigits == <<"0", "1", "2", "3", "4", "5", "6", "7", "8", "9",
               "a", "b", "c", "d", "e", "f">>

DigitValue(ch) ==
    IF \E i \in 1..16 : HexDigits[i] = ch
    THEN (CHOOSE i \in 1..16 : HexDigits[i] = ch) - 1
    ELSE 16

RECURSIVE SkipWhitespace(_)
SkipWhitespace(s) ==
    IF s # <<>> /\ Head(s) \in Whitespace THEN SkipWhitespace(Tail(s)) ELSE s

\* value of the longest prefix of s made of digits of the radix; -1 if none
RECURSIVE Digits(_, _, _)
Digits(s, radix, acc) ==
    IF s # <<>> /\ DigitValue(Head(s)) < radix
    THEN Digits(Tail(s), radix, (IF acc < 0 THEN 0 ELSE acc) * radix + DigitValue(Head(s)))
    ELSE acc

\* parseInt(text) with no radix argument, text a sequence of characters
parseInt(text) ==
    LET s0 == SkipWhitespace(text)
        neg == s0 # <<>> /\ Head(s0) = "-"
        s1 == IF s0 # <<>> /\ Head(s0) \in {"-", "+"} THEN Tail(s0) ELSE s0
        hex == Len(s1) >= 2 /\ s1[1] = "0" /\ s1[2] \in {"x", "X"}
        s2 == IF hex THEN Tail(Tail(s1)) ELSE s1
        n == Digits(s2, IF hex THEN 16 ELSE 10, -1)
    IN  IF n < 0 THEN NaN ELSE Num(IF neg THEN 0 - n ELSE n)

\* ------------------------------------------------------------------ inputs
Host == "H"                                   \* NEXT_PUBLIC_APP_HOST
NameTexts == {"Tea"}
PriceTexts == {<<"1", "2", "x">>}
StockTexts == {<<>>}

Product(img) ==
    [id |-> "p1", image |-> img, name |-> "Cup", price |-> Num(5),
     stock |-> Num(3), categoryId |-> Str("c1"), variants |-> <<"v1">>]
\* the props a session is constructed with: <<product, category>>
Sessions ==
    {<<Product(""), Obj([id |-> Str("c2")])>>,
     <<Product("H/uploads/old.png"), Obj([id |-> Str("c2")])>>,
     <<Product("H/uploads/old.png"), Undefined>>}

\* bodies of a response to POST /api/images
UploadBodies ==
    {Obj([image |-> Str("x.png")]), Obj([path |-> Str("x.png")])}

Response(status, data) == [t |-> "response", status |-> status, data |-> data]

\* rejections of the POST /api/images request
UploadErrors ==
    {[response |-> Undefined],
     [response |-> Response(500, Undefined)],
     [response |-> Response(413, Obj([error |-> Str("too large")]))],
     [response |-> Response(500, Obj(EmptyObject))]}

Err400a == Obj([name |-> <<Str("too short")>>])

\* rejections of the PATCH /api/products/{id} request
UpdateErrors ==
    {[response |-> Undefined],
     [response |-> Response(400, Obj([error |-> Err400a]))],
     [response |-> Response(400, Err400a)],
     [response |-> Response(403, Obj([error |-> Str("not allowed")]))],
     [response |-> Response(403, Obj([error |-> Obj([code |-> Num(7)])]))],
     [response |-> Response(500, Obj([error |-> Str("boom")]))]}

\* ------------------------------------------------------------------- state
VARIABLES
    product,        \* prop: reference to the product object
    category,       \* prop
    success, formErrors, error, open, openErr, image,   \* useState cells
    currentProduct, \* useState cell: reference to the draft object
    heap,           \* the product object and the draft object, by reference
    pickerShown,    \* the committed render shows the file picker, not the image
    mounted,        \* false once a render of the component has thrown
    uploads,        \* object -> uploads in flight whose handlers captured it
    patches,        \* update requests in flight: [n, url, data], n the submit's number
    submits,        \* handleSubmit invocations so far
    errFrom,        \* the invocation the whole of formErrors was last set for
    onUpdateCalls,  \* invocations of the onUpdate prop
    okHandled,      \* 2xx update responses handled
    unhandled,      \* a promise of the component was rejected with no handler
    opened          \* the product as it was at construction

vars == <<product, category, success, formErrors, error, open, openErr, image,
          currentProduct, heap, pickerShown, mounted, uploads,
          patches, submits, errFrom, onUpdateCalls, okHandled, unhandled,
          opened>>

\* The objects. The product prop is one; useState(product) makes it the first
\* draft as well. setCurrentProduct puts a new object in the state cell, and
\* the object it replaces is never read again: only the upload handlers that
\* captured it still hold it, and they only write to it. All the replaced
\* drafts are therefore kept as one object, Replaced, of no content.
ProductObject == "product"
DraftObject == "draft"
Replaced == "replaced"
Refs == {ProductObject, DraftObject}
Captured == {ProductObject, DraftObject, Replaced}
Free == [t |-> "free"]

Fields == {"id", "image", "name", "price", "stock", "categoryId", "variants"}

defaultErrors == Obj([f \in Fields |-> <<Str("")>>])

\* { ...prev, image: list }
SpreadImage(prev, list) ==
    LET base == IF prev.t = "object" THEN prev.v ELSE EmptyObject
    IN  Obj([f \in DOMAIN base \cup {"image"} |->
                IF f = "image" THEN list ELSE base[f]])

\* line 151: the picker is rendered in place of the image
RenderPicker(draft) == draft.image = ""

\* the committed output after a handler: React renders again only when a
\* state cell received a value that is not the one it held
Committed(changed, h, cp) ==
    IF changed THEN RenderPicker(h[cp]) ELSE pickerShown

Init ==
    /\ product = ProductObject
    /\ currentProduct = ProductObject
    /\ \E session \in Sessions :
        LET p == session[1]
        IN  /\ heap = [r \in Refs |-> IF r = ProductObject THEN p ELSE Free]
            /\ image = p.image
            /\ opened = p
            /\ pickerShown = RenderPicker(p)
            /\ category = session[2]
    /\ success = ""
    /\ formErrors = defaultErrors
    /\ error = ""
    /\ open = FALSE
    /\ openErr = FALSE
    /\ mounted = TRUE
    /\ uploads = [r \in Captured |-> 0]
    /\ patches = {}
    /\ submits = 0
    /\ errFrom = 0
    /\ onUpdateCalls = 0
    /\ okHandled = 0
    /\ unhandled = FALSE

\* ------------------------------------------------------------ user actions
\* The inputs, the picker and the button are those of the open dialog. Whether
\* the dialog is open is Dialog.Root's state, not the component's; the user
\* can open it whenever the component is there.
Interactive == mounted

\* lines 128, 133: the toasts' close buttons
closeErrorToast ==
    /\ mounted /\ openErr
    /\ openErr' = FALSE
    /\ pickerShown' = Committed(TRUE, heap, currentProduct)
    /\ UNCHANGED <<product, category, success, formErrors, error, open, image,
                   currentProduct, heap, mounted, uploads, patches,
                   submits, errFrom, onUpdateCalls, okHandled, unhandled, opened>>

closeSuccessToast ==
    /\ mounted /\ open
    /\ open' = FALSE
    /\ pickerShown' = Committed(TRUE, heap, currentProduct)
    /\ UNCHANGED <<product, category, success, formErrors, error, openErr, image,
                   currentProduct, heap, mounted, uploads, patches,
                   submits, errFrom, onUpdateCalls, okHandled, unhandled, opened>>

\* (prev) => ({ ...prev, [field]: value })
SpreadDraft(prev, field, value) == [prev EXCEPT ![field] = value]

\* setCurrentProduct with a new object made from the current one. The product
\* object stays what the prop refers to; a draft that is replaced stays only
\* with the uploads that captured it.
setCurrentProduct(field, value) ==
    LET d == SpreadDraft(heap[currentProduct], field, value)
    IN  /\ currentProduct' = DraftObject
        /\ heap' = [heap EXCEPT ![DraftObject] = d]
        /\ uploads' = IF currentProduct = DraftObject
                      THEN [uploads EXCEPT ![DraftObject] = 0,
                                           ![Replaced] = @ + uploads[DraftObject]]
                      ELSE uploads
        /\ pickerShown' = RenderPicker(d)
        /\ UNCHANGED <<product, category, success, formErrors, error, open,
                       openErr, image, mounted, patches, submits, errFrom,
                       onUpdateCalls, okHandled, unhandled, opened>>

onChangeName ==
    /\ Interactive
    /\ \E text \in NameTexts : setCurrentProduct("name", text)

onChangePrice ==
    /\ Interactive
    /\ \E text \in PriceTexts : setCurrentProduct("price", parseInt(text))

onChangeStock ==
    /\ Interactive
    /\ \E text \in StockTexts : setCurrentProduct("stock", parseInt(text))

\* ------------------------------------------------------------ image upload
InFlight == uploads[ProductObject] + uploads[DraftObject] + uploads[Replaced]

\* lines 45-58: the picker's onChange, up to the request being sent
uploadImage ==
    /\ Interactive /\ pickerShown
    /\ InFlight < MaxUploadsInFlight
    /\ formErrors' = SpreadImage(formErrors, <<>>)
    /\ uploads' = [uploads EXCEPT ![currentProduct] = @ + 1]
    /\ pickerShown' = Committed(TRUE, heap, currentProduct)
    /\ UNCHANGED <<product, category, success, error, open, openErr, image,
                   currentProduct, heap, mounted, patches, submits,
                   errFrom, onUpdateCalls, okHandled, unhandled, opened>>

\* z.object({ image: z.string() }).safeParse(data).success
ImageUrlParses(data) ==
    /\ data.t = "object"
    /\ "image" \in DOMAIN data.v
    /\ data.v.image.t = "string"

\* `${process.env.NEXT_PUBLIC_APP_HOST}/uploads/${imageUrl.data.image}`
ImageUrl(data) == Host \o "/uploads/" \o data.v.image.v

\* lines 59-65: the upload's response arrives
\* line 62: currentProduct.image = ..., on the object the closure captured
AssignImage(h, captured, url) ==
    IF captured \in Refs THEN [h EXCEPT ![captured].image = url] ELSE h

uploadImageThen(captured, data) ==
    /\ mounted /\ uploads[captured] > 0
    /\ uploads' = [uploads EXCEPT ![captured] = @ - 1]
    /\ IF ImageUrlParses(data)
       THEN /\ heap' = AssignImage(heap, captured, ImageUrl(data))
            /\ image' = ImageUrl(data)
            /\ pickerShown' = Committed(image # ImageUrl(data), heap', currentProduct)
       ELSE UNCHANGED <<heap, image, pickerShown>>
    /\ UNCHANGED <<product, category, success, formErrors, error, open, openErr,
                   currentProduct, mounted, patches, submits,
                   errFrom, onUpdateCalls, okHandled, unhandled, opened>>

\* lines 66-71: the upload is rejected. The updater reads
\* err.response.data.error when React runs it, during the next render: a
\* TypeError there makes the render throw and React unmounts the tree.
uploadImageCatch(captured, err) ==
    /\ mounted /\ uploads[captured] > 0
    /\ uploads' = [uploads EXCEPT ![captured] = @ - 1]
    /\ IF ReadThrows(err.response) \/ ReadThrows(err.response.data)
       THEN /\ mounted' = FALSE
            /\ UNCHANGED <<formErrors, pickerShown>>
       ELSE /\ formErrors' = SpreadImage(formErrors, <<Get(err.response.data, "error")>>)
            /\ pickerShown' = Committed(TRUE, heap, currentProduct)
            /\ UNCHANGED mounted
    /\ UNCHANGED <<product, category, success, error, open, openErr, image,
                   currentProduct, heap, patches, submits, errFrom,
                   onUpdateCalls, okHandled, unhandled, opened>>

\* ------------------------------------------------------------------ submit
\* line 78: !currentProduct.image
ImageMissingNever(draft) == FALSE
ImageMissing(draft) == draft.image = ""

\* lines 89-97: the body of the update request
RequestDataOfDraft(p, draft, cat) ==
    [id |-> draft.id, image |-> draft.image, name |-> draft.name,
     price |-> draft.price, stock |-> draft.stock,
     categoryId |-> draft.categoryId, variants |-> draft.variants]
RequestData(p, draft, cat) ==
    [id |-> p.id, image |-> draft.image, name |-> draft.name,
     price |-> draft.price, stock |-> draft.stock,
     categoryId |-> Get(cat, "id"), variants |-> p.variants]

\* lines 83-88: the request is a PATCH of /api/products/${product.id}
RequestUrl(p) == "/api/products/" \o p.id

\* lines 74-100: a click on "Update product", up to the request being sent
handleSubmit ==
    /\ Interactive
    /\ submits < MaxSubmits
    /\ submits' = submits + 1
    /\ errFrom' = submits + 1
    /\ error' = ""
    /\ IF ImageMissing(heap[currentProduct])
       THEN /\ formErrors' = SpreadImage(defaultErrors, <<Str("Image can not be empty")>>)
            /\ UNCHANGED patches
       ELSE /\ formErrors' = defaultErrors
            /\ patches' = patches \cup
                 {[n |-> submits + 1,
                   url |-> RequestUrl(heap[product]),
                   data |-> RequestData(heap[product], heap[currentProduct], category)]}
    /\ pickerShown' = Committed(TRUE, heap, currentProduct)
    /\ UNCHANGED <<product, category, success, open, openErr, image,
                   currentProduct, heap, mounted, uploads,
                   onUpdateCalls, okHandled, unhandled, opened>>

\* line 104: onUpdate()
CallOnUpdateNot(calls) == calls
CallOnUpdate(calls) == calls + 1

\* lines 101-105: a 2xx response to the update arrives. What onUpdate does is
\* the parent's business: it may or may not render this component again.
handleSubmitThen(p) ==
    /\ mounted /\ p \in patches
    /\ patches' = patches \ {p}
    /\ success' = "Product updated successfully"
    /\ open' = TRUE
    /\ onUpdateCalls' = CallOnUpdate(onUpdateCalls)
    /\ okHandled' = okHandled + 1
    /\ \E parentRenders \in BOOLEAN :
         pickerShown' = Committed(success' # success \/ ~open \/ parentRenders,
                                  heap, currentProduct)
    /\ UNCHANGED <<product, category, formErrors, error, openErr, image,
                   currentProduct, heap, mounted, uploads, submits,
                   errFrom, unhandled, opened>>

\* lines 106-117: what the catch handler makes of the rejection err, given the
\* cells' values: the new values, whether formErrors was set, whether the
\* handler itself threw
Outcome(fe, er, oe, set, threw) ==
    [formErrors |-> fe, error |-> er, openErr |-> oe, set |-> set, threw |-> threw]

CatchMerging400(fe, er, oe, err) ==
    IF ReadThrows(err.response) THEN Outcome(fe, er, oe, FALSE, TRUE)
    ELSE IF err.response.status = 400 /\ ~ReadThrows(err.response.data)
            /\ Get(err.response.data, "error").t = "object" /\ fe.t = "object"
    THEN LET new == Get(err.response.data, "error").v
         IN  Outcome(Obj([f \in DOMAIN fe.v \cup DOMAIN new |->
                             IF f \in DOMAIN new THEN new[f] ELSE fe.v[f]]),
                     er, oe, TRUE, FALSE)
    ELSE Outcome(fe, er, oe, FALSE, FALSE)

CatchShowingAny403(fe, er, oe, err) ==
    IF ReadThrows(err.response) THEN Outcome(fe, er, oe, FALSE, TRUE)
    ELSE IF err.response.status = 403 /\ ~ReadThrows(err.response.data)
    THEN Outcome(fe, "Forbidden", TRUE, FALSE, FALSE)
    ELSE Outcome(fe, er, oe, FALSE, FALSE)

CatchReportingOthers(fe, er, oe, err) ==
    IF ReadThrows(err.response) THEN Outcome(fe, "Network error", TRUE, FALSE, FALSE)
    ELSE IF err.response.status \notin {400, 403}
    THEN Outcome(fe, "Request failed", TRUE, FALSE, FALSE)
    ELSE Outcome(fe, er, oe, FALSE, FALSE)

Catch(fe, er, oe, err) ==
    IF ReadThrows(err.response) THEN Outcome(fe, er, oe, FALSE, TRUE)
    ELSE IF err.response.status = 400
    THEN IF ReadThrows(err.response.data) THEN Outcome(fe, er, oe, FALSE, TRUE)
         ELSE Outcome(Get(err.response.data, "error"), er, oe, TRUE, FALSE)
    ELSE IF err.response.status = 403
    THEN IF ReadThrows(err.response.data) THEN Outcome(fe, er, oe, FALSE, TRUE)
         ELSE LET result == Get(err.response.data, "error")
              IN  IF result.t = "string"
                  THEN Outcome(fe, result.v, TRUE, FALSE, FALSE)
                  ELSE Outcome(fe, er, oe, FALSE, FALSE)
    ELSE Outcome(fe, er, oe, FALSE, FALSE)

\* lines 106-117: the update is rejected
handleSubmitCatch(p, err) ==
    LET out == Catch(formErrors, error, openErr, err)
        \* an object parsed from a response is a new object; undefined is not
        changed == \/ out.set /\ ~(out.formErrors = Undefined /\ formErrors = Undefined)
                   \/ out.error # error
                   \/ out.openErr # openErr
    IN  /\ mounted /\ p \in patches
        /\ patches' = patches \ {p}
        /\ formErrors' = out.formErrors
        /\ error' = out.error
        /\ openErr' = out.openErr
        /\ errFrom' = IF out.set THEN p.n ELSE errFrom
        /\ unhandled' = (unhandled \/ out.threw)
        /\ pickerShown' = Committed(changed, heap, currentProduct)
        /\ UNCHANGED <<product, category, success, open, image, currentProduct,
                       heap, mounted, uploads, submits,
                       onUpdateCalls, okHandled, opened>>

\* ------------------------------------------------------------ specification
Next ==
    \/ closeErrorToast
    \/ closeSuccessToast
    \/ onChangeName
    \/ onChangePrice
    \/ onChangeStock
    \/ uploadImage
    \/ \E captured \in Captured, data \in UploadBodies : uploadImageThen(captured, data)
    \/ \E captured \in Captured, err \in UploadErrors : uploadImageCatch(captured, err)
    \/ handleSubmit
    \/ \E p \in patches : handleSubmitThen(p)
    \/ \E p \in patches, err \in UpdateErrors : handleSubmitCatch(p, err)

Spec == Init /\ [][Next]_vars

\* ------------------------------------------------------------- properties
draft == heap[currentProduct]
UploadedUrl == "H/uploads/x.png"
EmptyImageMessage == <<Str("Image can not be empty")>>
Is400(err) == ~ReadThrows(err.response) /\ err.response.status = 400
Is403(err) == ~ReadThrows(err.response) /\ err.response.status = 403
IsOtherFailure(err) ==
    ReadThrows(err.response) \/ err.response.status \notin {400, 403}

\* C1: a submit invoked while the draft's image is empty issues no update
\* request, and leaves the image field's error list exactly
\* ["Image can not be empty"].
C1_EmptyImageIsRejectedLocally ==
    [][(submits' = submits + 1 /\ draft.image = "")
        => /\ patches' = patches
           /\ formErrors'.t = "object"
           /\ "image" \in DOMAIN formErrors'.v
           /\ formErrors'.v.image = EmptyImageMessage]_vars

\* a submit has just been rejected for want of an image
C1_Witness ==
    /\ submits = 1 /\ patches = {} /\ draft.image = ""
    /\ formErrors = SpreadImage(defaultErrors, EmptyImageMessage)

\* C2: once a well-formed upload response {image: x} has been handled, the
\* draft's image (what a later submit reads) and the image state cell both
\* are H/uploads/x, whatever the user did while the upload was in flight.
C2_UploadReachesTheDraft ==
    [][\A captured \in Captured, data \in UploadBodies :
          (uploadImageThen(captured, data) /\ ImageUrlParses(data))
          => /\ heap'[currentProduct'].image = Host \o "/uploads/" \o data.v.image.v
             /\ image' = Host \o "/uploads/" \o data.v.image.v]_vars

\* C3: once every update request of two or more submits has been answered,
\* the field errors are those of the most recent submit.
C3_ErrorsAreTheLatestAttempts ==
    (submits >= 2 /\ patches = {}) => errFrom = submits

\* C4: handling a 2xx update response sets the success message, opens the
\* success toast and calls onUpdate once; nothing else calls onUpdate, so the
\* calls number the 2xx responses handled.
C4_SuccessNotifiesOnce ==
    [][/\ okHandled' = okHandled + 1
          => /\ success' = "Product updated successfully"
             /\ open' = TRUE
             /\ onUpdateCalls' = onUpdateCalls + 1
       /\ okHandled' = okHandled => onUpdateCalls' = onUpdateCalls
       /\ onUpdateCalls' = okHandled']_vars

\* two updates have succeeded, the toast still open
C4_Witness ==
    okHandled = 2 /\ onUpdateCalls = 2 /\ open /\ success = "Product updated successfully"

C6_Non403StringLeavesNoError ==
    [][\A p \in patches, err \in UpdateErrors :
          (handleSubmitCatch(p, err) /\ Is403(err))
          => LET e == Get(err.response.data, "error")
             IN  IF e.t = "string"
                 THEN error' = e.v /\ openErr' = TRUE
                 ELSE error' = "" /\ openErr' = FALSE]_vars

\* C6 as amended: a 403 whose error is a string s sets the top-level error to s
\* and opens the error toast; a 403 whose error is no string leaves the
\* top-level error and the error toast's open flag as they were.
C6_403SetsErrorOnlyFromString ==
    [][\A p \in patches, err \in UpdateErrors :
          (handleSubmitCatch(p, err) /\ Is403(err))
          => LET e == Get(err.response.data, "error")
             IN  IF e.t = "string"
                 THEN error' = e.v /\ openErr' = TRUE
                 ELSE error' = error /\ openErr' = openErr]_vars

\* a 403 with a string error has been handled
C6_Witness ==
    error = "not allowed" /\ openErr /\ patches = {}

\* C7: no outcome of an upload or update request makes a handler of the
\* component raise: no render throws, no promise is rejected unhandled.
C7_NothingIsThrown ==
    mounted /\ ~unhandled

\* C8: handling an update failure that has a status other than 400 and 403,
\* or no response, changes nothing the user sees and does not call onUpdate.
C8_OtherFailuresChangeNothing ==
    [][\A p \in patches, err \in UpdateErrors :
          (handleSubmitCatch(p, err) /\ IsOtherFailure(err))
          => UNCHANGED <<formErrors, error, success, open, openErr, heap,
                         currentProduct, image, onUpdateCalls>>]_vars

\* an update failed with no response, and the form is as the submit left it
C8_Witness ==
    /\ unhandled /\ mounted /\ patches = {} /\ submits = 1
    /\ formErrors = defaultErrors /\ error = "" /\ ~openErr /\ ~open

\* C9: the draft keeps the product's identifier, and every update request
\* issued carries the product's identifier in path and body, the category
\* prop's identifier, the product's variants, and the draft's image, name,
\* price and stock as they are when submit is invoked.
C9_RequestCarriesIdentityAndDraft ==
    [][/\ heap'[currentProduct'].id = opened.id
       /\ \A p \in patches' \ patches :
            /\ p.url = "/api/products/" \o opened.id
            /\ p.data = [id |-> opened.id,
                         image |-> draft.image,
                         name |-> draft.name,
                         price |-> draft.price,
                         stock |-> draft.stock,
                         categoryId |-> IF category = Undefined THEN Undefined
                                        ELSE category.v.id,
                         variants |-> opened.variants]]_vars

\* an update request made from an edited draft with an uploaded image
C9_Witness ==
    \E p \in patches :
        /\ p.data.name = "Tea" /\ p.data.price = Num(12) /\ p.data.stock = NaN
        /\ p.data.image = UploadedUrl
        /\ p.data.categoryId = Str("c2")

\* the part of C10 about a session opened on a product that has an image: no
\* upload is ever in flight, the draft's image stays the product's, and every
\* update request carries it
FilledSessionKeepsItsImage ==
    opened.image # ""
    => /\ InFlight = 0
       /\ draft.image = opened.image
       /\ \A p \in patches : p.data.image = opened.image

\* C10: an upload is started only while the draft's image is empty; hence a
\* session opened on a product that has an image never uploads, never changes
\* the draft's image, and sends the product's image in every update request.
C10_UploadOnlyWithoutImage ==
    [][/\ InFlight' > InFlight => draft.image = ""
       /\ FilledSessionKeepsItsImage']_vars

=============================================================================
